---- MODULE Spec2Model ----
(***************************************************************************)
(* Model of the sculptor backend: the two-stage auth handshake             *)
(* (api/figura/auth.rs), the WebSocket session loop and its subscription   *)
(* relays (api/figura/websocket.rs), the S2C codec (ws/s2c.rs) and the     *)
(* event notifier (api/figura/profile.rs).                                 *)
(*                                                                         *)
(* The user registry (crate::auth::UManager) and the C2S decoder           *)
(* (websocket/types/c2s.rs) are not part of the sources at hand; they are  *)
(* modelled from the written specification (sections 4.1 and 4.2).         *)
(***************************************************************************)
EXTENDS Naturals, Integers, Sequences, FiniteSets, TLC

\* ------------------------------------------------------------------ bounds
\* Number of Stage-1 calls (tokens minted) in a run.
MaxTokens == 2
\* Number of Stage-1 calls in a run of the handshake alone (SpecLogin).
MaxLogins == 3
\* Number of WebSocket connections accepted in a run.
MaxConns == 2
\* Number of relay tasks spawned in a run (tokio::spawn(subscribe(..))).
MaxRelays == 2
\* Number of broadcast channels created in a run (broadcast::channel(64)).
MaxChans == 2
\* Capacity of a session's outbound mpsc queue; the source uses 64.
QueueCap == 1
\* Capacity of a topic's broadcast ring; the source uses 64.
TopicCap == 2

\* ------------------------------------------------------------ value spaces
Users == {"X", "Y"}
None == "none"
Tokens == 1..MaxTokens
Logins == 1..MaxLogins
Conns == 1..MaxConns
Relays == 1..MaxRelays
Chans == 1..MaxChans

\* The 16 bytes of a user's Uuid (Uuid::into_bytes).
UuidBytes(u) == [i \in 1..16 |-> IF u = "X" THEN 17 ELSE 34]
\* The account the identity oracle knows under a nickname.
Nick(u) == IF u = "X" THEN "alice" ELSE "bob"

VARIABLES
    nextToken,      \* tokens minted so far + 1 (stands for rand() + SHA1 + hex)
    pending,        \* UManager: pending table, token -> nickname
    authenticated,  \* UManager: token view, token -> Userinfo
    registered,     \* UManager: id view, uuid -> Userinfo
    banned,         \* UManager: ban set
    vreq,           \* in-flight /verify requests, by the id they were called with
    session,        \* AppState.session: uuid -> outbound queue (its connection)
    broadcasts,     \* AppState.broadcasts: uuid -> broadcast channel
    nextChan,       \* broadcast channels created so far + 1
    conn,           \* the handle_socket task of each connection
    relay,          \* the subscribe task of each spawned relay
    nextRelay,      \* relays spawned so far + 1
    evt,            \* the send_event call in flight (uuid) or None
    request_temp,   \* UManager: temp-avatar-request flag, uuid -> BOOLEAN
    files,          \* the avatar files of each user: <uuid>.moon and temp/<uuid>.moon
    http,           \* in-flight avatar requests (user_info, temp_avatar, upload, delete)
    temp_since,     \* history: what happened to a user's temp flag since its last upload
    input,          \* the WebSocket frame the last step took in, if it took one
    last            \* what the last step let the outside observe

vars == <<nextToken, pending, authenticated, registered, banned, vreq, session,
          broadcasts, nextChan, conn, relay, nextRelay, evt, request_temp, files,
          http, temp_since, input, last>>

regVars == <<pending, authenticated, registered, banned>>
authVars == <<nextToken, pending, authenticated, registered, vreq>>
wsVars == <<session, broadcasts, nextChan, conn, relay, nextRelay>>
avatarVars == <<request_temp, files, http, temp_since>>

\* -------------------------------------------------------------- observations
NoBytes == <<>>
\* The frame connection c received; who = 0 when the step took no frame.
Input(c, buf) == [who |-> c, frame |-> buf]
NoInput == Input(0, NoBytes)
Obs(op, who, kind, code, body, data) ==
    [op |-> op, who |-> who, kind |-> kind, code |-> code, body |-> body, data |-> data]
\* A step that lets the outside observe nothing.
ObsNone == Obs("none", 0, "none", 0, "", NoBytes)
\* An HTTP response of handler op: status code and body.
Http(op, who, code, body) == Obs(op, who, "response", code, body, NoBytes)
\* A task that panicked (unwrap on None / Err): nothing is written.
Panic(op, who) == Obs(op, who, "panic", 0, "", NoBytes)
\* socket.send(Message::Binary(data)) on connection c.
WsBinary(c, data) == Obs("ws", c, "binary", 0, "", data)
\* socket.send(Message::Close(code, reason)) on connection c.
WsClose(c, code, reason) == Obs("ws", c, "close", code, reason, NoBytes)
\* socket.send(..) failed: the loop breaks and the session is torn down.
WsSendError(c) == Obs("ws", c, "send_error", 0, "", NoBytes)

\* ------------------------------------------------------------ user registry
Userinfo(u, t) == [nickname |-> Nick(u), uuid |-> u, token |-> t]

\* Restriction of a map to its domain minus one key.
Drop(f, k) == [x \in DOMAIN f \ {k} |-> f[x]]
\* A map with one key set.
Put(f, k, v) == [x \in DOMAIN f \cup {k} |-> IF x = k THEN v ELSE f[x]]

\* The lookups' None.
NoInfo == [nickname |-> None, uuid |-> None, token |-> 0]
get(t) == IF t \in DOMAIN authenticated THEN authenticated[t] ELSE NoInfo
get_by_uuid(u) == IF u \in DOMAIN registered THEN registered[u] ELSE NoInfo
is_banned(u) == u \in banned

\* insert(id, token, info): fails if either the token or the id is present.
insert_ok(u, t) == t \notin DOMAIN authenticated /\ u \notin DOMAIN registered
insert(u, t, info) ==
    /\ authenticated' = Put(authenticated, t, info)
    /\ registered' = Put(registered, u, info)

\* remove(id): removes all indices keyed by that id, including the token view.
remove_auth(u) == [t \in {x \in DOMAIN authenticated : authenticated[x].uuid # u}
                     |-> authenticated[t]]
remove_reg(u) == Drop(registered, u)

\* pending_insert(token, nickname) / pending_remove(token)
pending_insert(t, n) == Put(pending, t, n)
pending_remove(t) == Drop(pending, t)

\* ------------------------------------------------------------ auth handshake
VIdle == [pc |-> "idle", nickname |-> None]
UserOfNick(n) == CHOOSE u \in Users : Nick(u) = n

\* Stage 1, GET /auth/id?username=..: mint a token, record it as pending;
\* at most n tokens are minted in a run.
id_upto(u, n) ==
    /\ nextToken <= n
    /\ pending' = pending_insert(nextToken, Nick(u))
    /\ nextToken' = nextToken + 1
    /\ last' = Http("id", nextToken, 200, "server_id")
    /\ UNCHANGED <<authenticated, registered, banned, vreq, evt, avatarVars>>
    /\ UNCHANGED wsVars
    /\ input' = NoInput

id(u) == id_upto(u, MaxTokens)

\* Stage 2 called with an id that is not pending: pending_remove(..).unwrap()
\* panics, the request task dies and no response is written.
verify_absent(t) ==
    /\ t \notin DOMAIN pending
    /\ last' = Panic("verify", t)
    /\ UNCHANGED <<nextToken, pending, authenticated, registered, banned, vreq, evt, avatarVars>>
    /\ UNCHANGED wsVars
    /\ input' = NoInput

\* Stage 2 that looks the id up in pending without taking it out.
verify_begin_keeps_pending(t) ==
    /\ t \in DOMAIN pending
    /\ vreq[t].pc = "idle"
    /\ vreq' = [vreq EXCEPT ![t] = [pc |-> "has_joined", nickname |-> pending[t]]]
    /\ last' = ObsNone
    /\ UNCHANGED <<nextToken, pending, authenticated, registered, banned, evt, avatarVars>>
    /\ UNCHANGED wsVars
    /\ input' = NoInput

\* Stage 2, first part: take the id out of pending, then await has_joined.
verify_begin(t) ==
    /\ t \in DOMAIN pending
    /\ pending' = pending_remove(t)
    /\ vreq' = [vreq EXCEPT ![t] = [pc |-> "has_joined", nickname |-> pending[t]]]
    /\ last' = ObsNone
    /\ UNCHANGED <<nextToken, authenticated, registered, banned, evt, avatarVars>>
    /\ UNCHANGED wsVars
    /\ input' = NoInput

\* The Userinfo Stage 2 builds: token: Some(server_id).
verify_userinfo(u, t) == Userinfo(u, t)

\* The first insert with its Err arm left empty: a conflict is taken for a login.
verify_insert_ignores_conflict(t, u) ==
    /\ vreq' = [vreq EXCEPT ![t] = VIdle]
    /\ last' = Http("verify", t, 200, "server_id")
    /\ IF insert_ok(u, t)
       THEN insert(u, t, verify_userinfo(u, t))
       ELSE UNCHANGED <<authenticated, registered>>

\* Stage 2, Some((uuid, provider)) and not banned: the first insert.
verify_insert(t, u) ==
    IF insert_ok(u, t)
    THEN /\ insert(u, t, verify_userinfo(u, t))
         /\ vreq' = [vreq EXCEPT ![t] = VIdle]
         /\ last' = Http("verify", t, 200, "server_id")
    ELSE /\ vreq' = [vreq EXCEPT ![t].pc = "remove"]
         /\ last' = ObsNone
         /\ UNCHANGED <<authenticated, registered>>

\* Stage 2 without its ban check.
verify_some_no_ban_check(t, u) == verify_insert(t, u)

\* Stage 2, Some((uuid, provider)): the ban check comes before any insert.
verify_some(t, u) ==
    IF is_banned(u)
    THEN /\ vreq' = [vreq EXCEPT ![t] = VIdle]
         /\ last' = Http("verify", t, 400, "You're banned!")
         /\ UNCHANGED <<authenticated, registered>>
    ELSE verify_insert(t, u)

\* Stage 2 that evicts the user's record when the oracle does not confirm.
verify_joined_evicts_on_failure(t, r) ==
    /\ vreq[t].pc = "has_joined"
    /\ CASE r = "err" ->
             /\ vreq' = [vreq EXCEPT ![t] = VIdle]
             /\ last' = Http("verify", t, 500, "internal verify error")
             /\ authenticated' = remove_auth(UserOfNick(vreq[t].nickname))
             /\ registered' = remove_reg(UserOfNick(vreq[t].nickname))
         [] r = "none" ->
             /\ vreq' = [vreq EXCEPT ![t] = VIdle]
             /\ last' = Http("verify", t, 400, "failed to verify")
             /\ authenticated' = remove_auth(UserOfNick(vreq[t].nickname))
             /\ registered' = remove_reg(UserOfNick(vreq[t].nickname))
         [] r = "some" -> verify_some(t, UserOfNick(vreq[t].nickname))
    /\ UNCHANGED <<nextToken, pending, banned, evt, avatarVars>>
    /\ UNCHANGED wsVars
    /\ input' = NoInput

\* Stage 2 that puts the id back into pending when the oracle does not
\* confirm, so that the client may call /verify again.
verify_joined_requeues_on_failure(t, r) ==
    /\ vreq[t].pc = "has_joined"
    /\ CASE r = "err" ->
             /\ vreq' = [vreq EXCEPT ![t] = VIdle]
             /\ last' = Http("verify", t, 500, "internal verify error")
             /\ pending' = pending_insert(t, vreq[t].nickname)
             /\ UNCHANGED <<authenticated, registered>>
         [] r = "none" ->
             /\ vreq' = [vreq EXCEPT ![t] = VIdle]
             /\ last' = Http("verify", t, 400, "failed to verify")
             /\ pending' = pending_insert(t, vreq[t].nickname)
             /\ UNCHANGED <<authenticated, registered>>
         [] r = "some" ->
             /\ verify_some(t, UserOfNick(vreq[t].nickname))
             /\ UNCHANGED pending
    /\ UNCHANGED <<nextToken, banned, evt, avatarVars>>
    /\ UNCHANGED wsVars
    /\ input' = NoInput

\* Stage 2, has_joined has answered: Err -> 500, Ok(None) -> 400,
\* Ok(Some(..)) -> ban check and insert.
verify_joined(t, r) ==
    /\ vreq[t].pc = "has_joined"
    /\ CASE r = "err" ->
             /\ vreq' = [vreq EXCEPT ![t] = VIdle]
             /\ last' = Http("verify", t, 500, "internal verify error")
             /\ UNCHANGED <<authenticated, registered>>
         [] r = "none" ->
             /\ vreq' = [vreq EXCEPT ![t] = VIdle]
             /\ last' = Http("verify", t, 400, "failed to verify")
             /\ UNCHANGED <<authenticated, registered>>
         [] r = "some" -> verify_some(t, UserOfNick(vreq[t].nickname))
    /\ UNCHANGED <<nextToken, pending, banned, evt, avatarVars>>
    /\ UNCHANGED wsVars
    /\ input' = NoInput

\* The takeover with a remove that clears the id view only.
verify_remove_id_view_only(t) ==
    /\ vreq[t].pc = "remove"
    /\ registered' = remove_reg(UserOfNick(vreq[t].nickname))
    /\ vreq' = [vreq EXCEPT ![t].pc = "retry"]
    /\ last' = ObsNone
    /\ UNCHANGED <<nextToken, pending, authenticated, banned, evt, avatarVars>>
    /\ UNCHANGED wsVars
    /\ input' = NoInput

\* Stage 2, insert failed: umanager.remove(&uuid).
verify_remove(t) ==
    /\ vreq[t].pc = "remove"
    /\ authenticated' = remove_auth(UserOfNick(vreq[t].nickname))
    /\ registered' = remove_reg(UserOfNick(vreq[t].nickname))
    /\ vreq' = [vreq EXCEPT ![t].pc = "retry"]
    /\ last' = ObsNone
    /\ UNCHANGED <<nextToken, pending, banned, evt, avatarVars>>
    /\ UNCHANGED wsVars
    /\ input' = NoInput

\* Stage 2, the one retry of insert: Ok -> 200, Err -> 400 "second session".
verify_retry(t) ==
    /\ vreq[t].pc = "retry"
    /\ LET u == UserOfNick(vreq[t].nickname) IN
       IF insert_ok(u, t)
       THEN /\ insert(u, t, verify_userinfo(u, t))
            /\ last' = Http("verify", t, 200, "server_id")
       ELSE /\ last' = Http("verify", t, 400, "second session detected")
            /\ UNCHANGED <<authenticated, registered>>
    /\ vreq' = [vreq EXCEPT ![t] = VIdle]
    /\ UNCHANGED <<nextToken, pending, banned, evt, avatarVars>>
    /\ UNCHANGED wsVars
    /\ input' = NoInput

\* The ban list is reloaded from the configuration while the server runs.
ban(u) ==
    /\ u \notin banned
    /\ banned' = banned \cup {u}
    /\ last' = ObsNone
    /\ UNCHANGED <<nextToken, pending, authenticated, registered, vreq, evt, avatarVars>>
    /\ UNCHANGED wsVars
    /\ input' = NoInput

\* -------------------------------------------------------------------- codec
\* Uuid::from_bytes: the user whose 16 bytes these are.
UserOfBytes(b) == CHOOSE u \in Users : UuidBytes(u) = b
IsUuid(b) == \E u \in Users : UuidBytes(u) = b

\* The bytes of a minted token's text (stands for the 40 hex characters).
TokenStr(t) == <<48 + t>>
\* String::from_utf8 succeeds on ASCII bytes; a byte >= 128 alone is invalid.
IsUtf8(b) == \A i \in 1..Len(b) : b[i] < 128
\* The token a text names, 0 if it names no token the server ever minted.
TokenOfStr(b) == IF \E t \in Tokens : TokenStr(t) = b
                 THEN CHOOSE t \in Tokens : TokenStr(t) = b
                 ELSE 0

\* C2SMessage::try_from: opcode, exact length for Sub / Unsub, minimum length
\* for Ping, unknown opcodes rejected.
C2SDecode(buf) ==
    CASE buf[1] = 0 -> [op |-> "Token", arg |-> SubSeq(buf, 2, Len(buf))]
      [] buf[1] = 1 -> IF Len(buf) >= 7
                       THEN [op |-> "Ping", arg |-> SubSeq(buf, 2, Len(buf))]
                       ELSE [op |-> "BadLength", arg |-> NoBytes]
      [] buf[1] \in {2, 3} ->
             IF Len(buf) = 17
             THEN [op |-> IF buf[1] = 2 THEN "Sub" ELSE "Unsub",
                   arg |-> SubSeq(buf, 2, 17)]
             ELSE [op |-> "BadLength", arg |-> NoBytes]
      [] OTHER -> [op |-> "BadEnum", arg |-> NoBytes]

\* "You're banned!" as bytes.
BannedText == <<89, 111, 117, 39, 114, 101, 32, 98, 97, 110, 110, 101, 100, 33>>

\* S2CMessage::into for the frames the server builds itself.
S2CAuth == <<0>>
S2CEvent(u) == <<2>> \o UuidBytes(u)
S2CToast(t, h) == <<3, t>> \o h

\* ------------------------------------------------------------- the S2C codec
\* An S2CMessage value: the variant and its fields (unused fields at rest).
S2CMsg(type, uuid, num, flag, text, more) ==
    [type |-> type, uuid |-> uuid, num |-> num, flag |-> flag,
     text |-> text, more |-> more]
MsgAuth == S2CMsg("Auth", None, 0, FALSE, NoBytes, NoBytes)
MsgPing(u, i, sync, d) == S2CMsg("Ping", u, i, sync, d, NoBytes)
MsgEvent(u) == S2CMsg("Event", u, 0, FALSE, NoBytes, NoBytes)
\* Toast(severity, header, body): flag tells Some(body) from None.
MsgToast(t, h, some, d) == S2CMsg("Toast", None, t, some, h, d)
MsgChat(txt) == S2CMsg("Chat", None, 0, FALSE, txt, NoBytes)
MsgNotice(t) == S2CMsg("Notice", None, t, FALSE, NoBytes, NoBytes)
NoMsg == S2CMsg("none", None, 0, FALSE, NoBytes, NoBytes)

\* u32::to_be_bytes / u32::from_be_bytes
to_be_bytes(i) == <<(i \div 16777216) % 256, (i \div 65536) % 256,
                    (i \div 256) % 256, i % 256>>
from_be_bytes(b) == b[1] * 16777216 + b[2] * 65536 + b[3] * 256 + b[4]

\* impl Into<Box<[u8]>> for S2CMessage
S2CMessage_into(m) ==
    CASE m.type = "Auth" -> S2CAuth
      [] m.type = "Ping" -> <<1>> \o UuidBytes(m.uuid) \o to_be_bytes(m.num)
                                 \o <<IF m.flag THEN 1 ELSE 0>> \o m.text
      [] m.type = "Event" -> S2CEvent(m.uuid)
      [] m.type = "Toast" -> IF m.flag
                             THEN S2CToast(m.num, m.text) \o <<0>> \o m.more
                             ELSE S2CToast(m.num, m.text)
      [] m.type = "Chat" -> <<4>> \o m.text
      [] m.type = "Notice" -> <<5, m.num>>

\* The outcomes of try_from: Ok(message), Err(..) or a panic (todo!()).
Decoded(kind, m) == [kind |-> kind, msg |-> m]

\* impl TryFrom<&[u8]> for S2CMessage
S2CMessage_try_from(buf) ==
    IF Len(buf) = 0 THEN Decoded("BadLength", NoMsg)
    ELSE CASE buf[1] = 0 ->
                IF Len(buf) = 1 THEN Decoded("ok", MsgAuth)
                ELSE Decoded("BadLength", NoMsg)
           [] buf[1] = 1 ->
                IF Len(buf) >= 22
                THEN Decoded("ok", MsgPing(UserOfBytes(SubSeq(buf, 2, 17)),
                                           from_be_bytes(SubSeq(buf, 18, 21)),
                                           buf[22] # 0,
                                           SubSeq(buf, 23, Len(buf))))
                ELSE Decoded("BadLength", NoMsg)
           [] buf[1] = 2 ->
                IF Len(buf) = 17
                THEN Decoded("ok", MsgEvent(UserOfBytes(SubSeq(buf, 2, 17))))
                ELSE Decoded("BadLength", NoMsg)
           [] buf[1] \in {3, 4, 5} -> Decoded("panic", NoMsg)
           [] OTHER -> Decoded("BadEnum", NoMsg)

\* The rewrite without the [1..] slice: the client's opcode byte stays in.
into_s2c_ping_keeps_opcode(buf, u) == <<1>> \o UuidBytes(u) \o buf

\* into_s2c_ping: opcode 1, the publisher's 16 bytes, then the C2S frame
\* from its second byte on.
into_s2c_ping(buf, u) == <<1>> \o UuidBytes(u) \o SubSeq(buf, 2, Len(buf))

\* The frames a client sends in this model.
PingFrames == {<<1, 0, 0, 0, 5, 1, 222, 173>>}
TokenFrame(t) == <<0>> \o TokenStr(t)
SubFrame(u) == <<2>> \o UuidBytes(u)
UnsubFrame(u) == <<3>> \o UuidBytes(u)
BadFrames == {<<>>, <<9>>, <<2, 1>>, <<0, 255>>}
Frames == PingFrames \cup {TokenFrame(t) : t \in Tokens}
                     \cup {SubFrame(u) : u \in Users}
                     \cup {UnsubFrame(u) : u \in Users}
                     \cup BadFrames

\* ------------------------------------------------------------- topics, relays
EmptyMap == <<>>
RelayNone == [st |-> "none", conn |-> 0, chan |-> 0, inbox |-> <<>>, hand |-> <<>>,
              lagged |-> FALSE, notified |-> FALSE]
RelayDone == [RelayNone EXCEPT !.st = "done"]
\* A relay that starts on a fresh receiver of channel ch for connection c.
RelayRun(c, ch) == [RelayNone EXCEPT !.st = "run", !.conn = c, !.chan = ch]

\* broadcast::Sender::send on channel ch: every live receiver of ch gets the
\* frame; a receiver that is a full ring behind loses its place (Lagged).
Publish(rel, ch, d) ==
    [r \in Relays |->
        IF rel[r].st = "run" /\ rel[r].chan = ch /\ ~rel[r].lagged
        THEN IF Len(rel[r].inbox) < TopicCap
             THEN [rel[r] EXCEPT !.inbox = Append(@, d)]
             ELSE [rel[r] EXCEPT !.inbox = <<>>, !.lagged = TRUE]
        ELSE rel[r]]

\* ---------------------------------------------------------------- session loop
\* tok is not a field of the task: it is the token of the Token frame that
\* set the owner, kept to tell the logins of one user apart.
ConnNew == [st |-> "new", pc |-> "recv", owner |-> None, bctx |-> 0,
            cutoff |-> EmptyMap, mq |-> <<>>, arg |-> None, tok |-> 0]
ConnOpen == [ConnNew EXCEPT !.st = "open"]
\* The task has returned: its queue receiver, cutoff map and sender are dropped.
ConnDone == [ConnNew EXCEPT !.st = "done"]
\* The task has panicked: the same drops, but the closing code never ran.
ConnPanic == [ConnNew EXCEPT !.st = "panic"]

\* The closing code without state.user_manager.remove(&u.uuid).
teardown_keeps_record(c, owner, sess) ==
    /\ conn' = [conn EXCEPT ![c] = ConnDone]
    /\ session' = IF owner # None THEN Drop(sess, owner) ELSE sess
    /\ UNCHANGED <<authenticated, registered>>

\* The closing code after the loop: with an owner, remove the SessionMap entry
\* of the owner's id and the registry record of the owner's id.
teardown(c, owner, sess) ==
    /\ conn' = [conn EXCEPT ![c] = ConnDone]
    /\ IF owner # None
       THEN /\ session' = Drop(sess, owner)
            /\ authenticated' = remove_auth(owner)
            /\ registered' = remove_reg(owner)
       ELSE /\ session' = sess
            /\ UNCHANGED <<authenticated, registered>>

\* A panic inside the loop: the task unwinds, nothing is removed.
ws_panic(c) ==
    /\ conn' = [conn EXCEPT ![c] = ConnPanic]
    /\ last' = Panic("ws", c)
    /\ UNCHANGED <<session, broadcasts, nextChan, relay, nextRelay,
                   authenticated, registered>>

\* `continue` with nothing sent and nothing changed.
ws_ignore(c) ==
    /\ last' = ObsNone
    /\ UNCHANGED <<session, broadcasts, nextChan, conn, relay, nextRelay,
                   authenticated, registered>>

\* The upgrade: a new task with owner None, empty cutoff, a fresh queue.
ws_connect(c) ==
    /\ conn[c].st = "new"
    /\ \A d \in Conns : d < c => conn[d].st # "new"
    /\ conn' = [conn EXCEPT ![c] = ConnOpen]
    /\ last' = ObsNone
    /\ UNCHANGED <<session, broadcasts, nextChan, relay, nextRelay>>
    /\ UNCHANGED <<nextToken, pending, authenticated, registered, banned, vreq, evt, avatarVars>>
    /\ input' = NoInput

\* A Close frame or a receive error: break, then the closing code.
ws_close(c) ==
    /\ conn[c].st = "open" /\ conn[c].pc = "recv"
    /\ teardown(c, conn[c].owner, session)
    /\ last' = ObsNone
    /\ UNCHANGED <<broadcasts, nextChan, relay, nextRelay>>
    /\ UNCHANGED <<nextToken, pending, banned, vreq, evt, avatarVars>>
    /\ input' = NoInput

\* "Sending message": the answer goes out, or the send fails and the loop breaks.
ws_answer(c, rec, sess, ok) ==
    IF ok
    THEN /\ conn' = [conn EXCEPT ![c] = rec]
         /\ session' = sess
         /\ last' = WsBinary(c, S2CAuth)
         /\ UNCHANGED <<authenticated, registered>>
    ELSE /\ teardown(c, rec.owner, sess)
         /\ last' = WsSendError(c)

\* The registry hit without state.session.insert(..).
ws_token_hit_no_session(c, info, ok) ==
    LET rec == [conn[c] EXCEPT !.owner = info.uuid, !.tok = info.token]
    IN  /\ UNCHANGED <<broadcasts, nextChan, relay, nextRelay>>
        /\ IF info.uuid \in DOMAIN broadcasts
           THEN ws_answer(c, [rec EXCEPT !.bctx = broadcasts[info.uuid]], session, ok)
           ELSE /\ conn' = [conn EXCEPT ![c] = [rec EXCEPT !.pc = "token_insert"]]
                /\ session' = session
                /\ last' = ObsNone
                /\ UNCHANGED <<authenticated, registered>>

\* Token frame, registry hit: owner, SessionMap entry, then the topic lookup.
ws_token_hit(c, info, ok) ==
    LET rec == [conn[c] EXCEPT !.owner = info.uuid, !.tok = info.token]
        sess == Put(session, info.uuid, c)
    IN  /\ UNCHANGED <<broadcasts, nextChan, relay, nextRelay>>
        /\ IF info.uuid \in DOMAIN broadcasts
           THEN ws_answer(c, [rec EXCEPT !.bctx = broadcasts[info.uuid]], sess, ok)
           ELSE /\ conn' = [conn EXCEPT ![c] = [rec EXCEPT !.pc = "token_insert"]]
                /\ session' = sess
                /\ last' = ObsNone
                /\ UNCHANGED <<authenticated, registered>>

\* The Token arm with `break` in place of `continue` on a registry miss.
ws_token_miss_breaks(c, text, ok) ==
    IF ~IsUtf8(text) THEN ws_panic(c)
    ELSE IF get(TokenOfStr(text)) # NoInfo
    THEN ws_token_hit(c, get(TokenOfStr(text)), ok)
    ELSE /\ last' = WsClose(c, 4000, "Re-auth")
         /\ teardown(c, conn[c].owner, session)
         /\ UNCHANGED <<broadcasts, nextChan, relay, nextRelay>>

\* Token frame: the text must be UTF-8 (unwrap), then the registry lookup.
ws_token(c, text, ok) ==
    IF ~IsUtf8(text) THEN ws_panic(c)
    ELSE IF get(TokenOfStr(text)) # NoInfo
    THEN ws_token_hit(c, get(TokenOfStr(text)), ok)
    ELSE /\ last' = WsClose(c, 4000, "Re-auth")
         /\ UNCHANGED <<session, broadcasts, nextChan, conn, relay, nextRelay,
                        authenticated, registered>>

\* A publish that waits until every receiver of the channel has room.
ws_ping_waits(c, buf) ==
    IF conn[c].owner = None THEN ws_panic(c)
    ELSE /\ \A r \in Relays : (relay[r].st = "run" /\ relay[r].chan = conn[c].bctx)
                                 => Len(relay[r].inbox) < TopicCap
         /\ relay' = Publish(relay, conn[c].bctx, into_s2c_ping(buf, conn[c].owner))
         /\ last' = ObsNone
         /\ UNCHANGED <<session, broadcasts, nextChan, conn, nextRelay,
                        authenticated, registered>>

\* Ping frame: rewrite and publish on the session's own sender.
ws_ping(c, buf) ==
    IF conn[c].owner = None THEN ws_panic(c)
    ELSE /\ relay' = Publish(relay, conn[c].bctx, into_s2c_ping(buf, conn[c].owner))
         /\ last' = ObsNone
         /\ UNCHANGED <<session, broadcasts, nextChan, conn, nextRelay,
                        authenticated, registered>>

\* tokio::spawn(subscribe(mtx.clone(), rx, shutdown)); cutoff.insert(uuid, shutdown)
ws_spawn(c, u, ch, rel) ==
    /\ nextRelay <= MaxRelays
    /\ relay' = [rel EXCEPT ![nextRelay] = RelayRun(c, ch)]
    /\ nextRelay' = nextRelay + 1
    /\ conn' = [conn EXCEPT ![c].cutoff = Put(@, u, nextRelay), ![c].pc = "recv",
                            ![c].arg = None]

\* The Sub arm without its "Ignoring self Sub" test.
ws_sub_no_self_test(c, u) ==
    IF conn[c].owner = None THEN ws_panic(c)
    ELSE /\ last' = ObsNone
         /\ UNCHANGED <<session, broadcasts, nextChan, authenticated, registered>>
         /\ IF u \in DOMAIN broadcasts
            THEN ws_spawn(c, u, broadcasts[u], relay)
            ELSE /\ conn' = [conn EXCEPT ![c].pc = "sub_insert", ![c].arg = u]
                 /\ UNCHANGED <<relay, nextRelay>>

\* Sub frame: self is ignored; otherwise subscribe on the topic's sender, or
\* find no topic and go on to create one.
ws_sub(c, u) ==
    IF conn[c].owner = None THEN ws_panic(c)
    ELSE IF u = conn[c].owner THEN ws_ignore(c)
    ELSE /\ last' = ObsNone
         /\ UNCHANGED <<session, broadcasts, nextChan, authenticated, registered>>
         /\ IF u \in DOMAIN broadcasts
            THEN ws_spawn(c, u, broadcasts[u], relay)
            ELSE /\ conn' = [conn EXCEPT ![c].pc = "sub_insert", ![c].arg = u]
                 /\ UNCHANGED <<relay, nextRelay>>

\* Unsub frame: self is ignored; otherwise cutoff.remove(..).unwrap() and
\* notify_one on the handle found.
ws_unsub(c, u) ==
    IF conn[c].owner = None THEN ws_panic(c)
    ELSE IF u = conn[c].owner THEN ws_ignore(c)
    ELSE IF u \notin DOMAIN conn[c].cutoff THEN ws_panic(c)
    ELSE /\ conn' = [conn EXCEPT ![c].cutoff = Drop(@, u)]
         /\ relay' = [relay EXCEPT ![conn[c].cutoff[u]] =
                         IF @.st = "run" THEN [@ EXCEPT !.notified = TRUE] ELSE @]
         /\ last' = ObsNone
         /\ UNCHANGED <<session, broadcasts, nextChan, nextRelay,
                        authenticated, registered>>

\* The ban check in front of every frame of an authenticated session: the Toast.
ws_ban_toast(c) ==
    /\ conn' = [conn EXCEPT ![c].pc = "ban_sleep"]
    /\ last' = WsBinary(c, S2CToast(2, BannedText))
    /\ UNCHANGED <<session, broadcasts, nextChan, relay, nextRelay,
                   authenticated, registered>>

\* A dispatch that gives up the session on a frame it cannot decode.
ws_dispatch_fails_on_error(c, buf, ok) ==
    LET m == C2SDecode(buf) IN
    CASE m.op = "Token" -> ws_token(c, m.arg, ok)
      [] m.op = "Ping" -> ws_ping(c, buf)
      [] m.op = "Sub" -> ws_sub(c, UserOfBytes(m.arg))
      [] m.op = "Unsub" -> ws_unsub(c, UserOfBytes(m.arg))
      [] OTHER -> ws_panic(c)

\* The dispatch on the decoded frame.
ws_dispatch(c, buf, ok) ==
    LET m == C2SDecode(buf) IN
    CASE m.op = "Token" -> ws_token(c, m.arg, ok)
      [] m.op = "Ping" -> ws_ping(c, buf)
      [] m.op = "Sub" -> ws_sub(c, UserOfBytes(m.arg))
      [] m.op = "Unsub" -> ws_unsub(c, UserOfBytes(m.arg))
      [] OTHER -> ws_ignore(c)

\* The loop body without its "Checking ban list" block.
ws_frame_no_ban_check(c, buf, ok) ==
    /\ conn[c].st = "open" /\ conn[c].pc = "recv"
    /\ IF Len(buf) = 0 THEN ws_ignore(c)
       ELSE ws_dispatch(c, buf, ok)
    /\ UNCHANGED <<nextToken, pending, banned, vreq, evt, avatarVars>>
    /\ input' = Input(c, buf)

\* One inbound frame (not Close) through the loop body.
ws_frame(c, buf, ok) ==
    /\ conn[c].st = "open" /\ conn[c].pc = "recv"
    /\ IF conn[c].owner # None /\ is_banned(conn[c].owner) THEN ws_ban_toast(c)
       ELSE IF Len(buf) = 0 THEN ws_ignore(c)
       ELSE ws_dispatch(c, buf, ok)
    /\ UNCHANGED <<nextToken, pending, banned, vreq, evt, avatarVars>>
    /\ input' = Input(c, buf)

\* Token frame, no topic found: broadcast::channel(64), broadcasts.insert, keep
\* the sender, then answer Auth.
ws_token_insert(c, ok) ==
    /\ conn[c].st = "open" /\ conn[c].pc = "token_insert"
    /\ nextChan <= MaxChans
    /\ broadcasts' = Put(broadcasts, conn[c].owner, nextChan)
    /\ nextChan' = nextChan + 1
    /\ ws_answer(c, [conn[c] EXCEPT !.bctx = nextChan, !.pc = "recv"], session, ok)
    /\ UNCHANGED <<relay, nextRelay>>
    /\ UNCHANGED <<nextToken, pending, banned, vreq, evt, avatarVars>>
    /\ input' = NoInput

\* Sub frame, no topic found: broadcast::channel(64), broadcasts.insert, the
\* relay runs on the receiver that came with the new channel.
ws_sub_insert(c) ==
    /\ conn[c].st = "open" /\ conn[c].pc = "sub_insert"
    /\ nextChan <= MaxChans
    /\ broadcasts' = Put(broadcasts, conn[c].arg, nextChan)
    /\ nextChan' = nextChan + 1
    /\ ws_spawn(c, conn[c].arg, nextChan, relay)
    /\ last' = ObsNone
    /\ UNCHANGED <<session, authenticated, registered>>
    /\ UNCHANGED <<nextToken, pending, banned, vreq, evt, avatarVars>>
    /\ input' = NoInput

\* The ban check, after the 6 s sleep: Close(4001), then `continue`.
ws_ban_close(c) ==
    /\ conn[c].st = "open" /\ conn[c].pc = "ban_sleep"
    /\ conn' = [conn EXCEPT ![c].pc = "recv"]
    /\ last' = WsClose(c, 4001, "You're banned!")
    /\ UNCHANGED <<session, broadcasts, nextChan, relay, nextRelay>>
    /\ UNCHANGED <<nextToken, pending, authenticated, registered, banned, vreq, evt, avatarVars>>
    /\ input' = NoInput

\* The outbound branch: dequeue one frame and send it as Binary; a send error
\* breaks the loop.
ws_deliver(c, ok) ==
    /\ conn[c].st = "open" /\ conn[c].pc = "recv"
    /\ conn[c].mq # <<>>
    /\ IF ok
       THEN /\ conn' = [conn EXCEPT ![c].mq = Tail(@)]
            /\ last' = WsBinary(c, Head(conn[c].mq))
            /\ UNCHANGED <<session, authenticated, registered>>
       ELSE /\ teardown(c, conn[c].owner, session)
            /\ last' = WsSendError(c)
    /\ UNCHANGED <<broadcasts, nextChan, relay, nextRelay>>
    /\ UNCHANGED <<nextToken, pending, banned, vreq, evt, avatarVars>>
    /\ input' = NoInput

\* ------------------------------------------------------------------ relay task
\* The channel still has a sender: the one in the topic registry or the one a
\* session kept as its publish handle.
HasSender(ch) ==
    \/ \E u \in DOMAIN broadcasts : broadcasts[u] = ch
    \/ \E c \in Conns : conn[c].st = "open" /\ conn[c].bctx = ch

\* The queue's receiver is gone once the session task has ended.
QueueClosed(c) == conn[c].st \in {"done", "panic"}

relay_exit(r) ==
    /\ relay' = [relay EXCEPT ![r] = RelayDone]
    /\ UNCHANGED conn

\* select!: shutdown.notified() is ready.
subscribe_shutdown(r) ==
    /\ relay[r].st = "run" /\ relay[r].hand = <<>>
    /\ relay[r].notified
    /\ relay_exit(r)
    /\ last' = ObsNone
    /\ UNCHANGED <<session, broadcasts, nextChan, nextRelay>>
    /\ UNCHANGED <<nextToken, pending, authenticated, registered, banned, vreq, evt, avatarVars>>
    /\ input' = NoInput

\* A receiver that hands out the newest frame it holds instead of the oldest.
subscribe_recv_newest_first(r) ==
    /\ relay[r].st = "run" /\ relay[r].hand = <<>>
    /\ IF relay[r].lagged THEN relay_exit(r)
       ELSE IF relay[r].inbox # <<>>
       THEN /\ relay' = [relay EXCEPT
                            ![r].hand = relay[r].inbox[Len(relay[r].inbox)],
                            ![r].inbox = SubSeq(relay[r].inbox, 1,
                                                Len(relay[r].inbox) - 1)]
            /\ UNCHANGED conn
       ELSE /\ ~HasSender(relay[r].chan)
            /\ relay_exit(r)
    /\ last' = ObsNone
    /\ UNCHANGED <<session, broadcasts, nextChan, nextRelay>>
    /\ UNCHANGED <<nextToken, pending, authenticated, registered, banned, vreq, evt, avatarVars>>
    /\ input' = NoInput

\* select!: rx.recv() is ready: a frame, or an error (Lagged, Closed) that ends
\* the relay.
subscribe_recv(r) ==
    /\ relay[r].st = "run" /\ relay[r].hand = <<>>
    /\ IF relay[r].lagged THEN relay_exit(r)
       ELSE IF relay[r].inbox # <<>>
       THEN /\ relay' = [relay EXCEPT ![r].hand = Head(relay[r].inbox),
                                      ![r].inbox = Tail(relay[r].inbox)]
            /\ UNCHANGED conn
       ELSE /\ ~HasSender(relay[r].chan)
            /\ relay_exit(r)
    /\ last' = ObsNone
    /\ UNCHANGED <<session, broadcasts, nextChan, nextRelay>>
    /\ UNCHANGED <<nextToken, pending, authenticated, registered, banned, vreq, evt, avatarVars>>
    /\ input' = NoInput

\* socket.send(msg).await on the session's queue: waits for room, fails once
\* the receiver is gone.
subscribe_send(r) ==
    /\ relay[r].st = "run" /\ relay[r].hand # <<>>
    /\ IF QueueClosed(relay[r].conn) THEN relay_exit(r)
       ELSE /\ Len(conn[relay[r].conn].mq) < QueueCap
            /\ conn' = [conn EXCEPT ![relay[r].conn].mq = Append(@, relay[r].hand)]
            /\ relay' = [relay EXCEPT ![r].hand = <<>>]
    /\ last' = ObsNone
    /\ UNCHANGED <<session, broadcasts, nextChan, nextRelay>>
    /\ UNCHANGED <<nextToken, pending, authenticated, registered, banned, vreq, evt, avatarVars>>
    /\ input' = NoInput

\* --------------------------------------------------------------- event notifier
\* send_event, first half: Event(uuid) on the user's topic, if there is one.
send_event_topic(u) ==
    /\ evt = None
    /\ evt' = u
    /\ UNCHANGED avatarVars
    /\ relay' = IF u \in DOMAIN broadcasts
                THEN Publish(relay, broadcasts[u], S2CEvent(u))
                ELSE relay
    /\ last' = ObsNone
    /\ UNCHANGED <<session, broadcasts, nextChan, conn, nextRelay>>
    /\ UNCHANGED <<nextToken, pending, authenticated, registered, banned, vreq>>
    /\ input' = NoInput

\* send_event, second half: Event(uuid) on the user's session queue, if there
\* is one; session.send(..).await waits for room and fails on a closed queue.
send_event_session(u) ==
    /\ evt = u
    /\ evt' = None
    /\ UNCHANGED avatarVars
    /\ IF u \in DOMAIN session /\ ~QueueClosed(session[u])
       THEN /\ Len(conn[session[u]].mq) < QueueCap
            /\ conn' = [conn EXCEPT ![session[u]].mq = Append(@, S2CEvent(u))]
       ELSE UNCHANGED conn
    /\ last' = Http("send_event", 0, 200, "ok")
    /\ UNCHANGED <<session, broadcasts, nextChan, relay, nextRelay>>
    /\ UNCHANGED <<nextToken, pending, authenticated, registered, banned, vreq>>
    /\ input' = NoInput

\* ------------------------------------------------------------- avatar requests
MaxReqs == 2
Reqs == 1..MaxReqs

\* UManager (described by the specification): the temp-avatar-request flag.
\* request_temp_state(uuid, false) reads it (a user without a flag reads false).
request_temp_state(u) == IF u \in DOMAIN request_temp THEN request_temp[u] ELSE FALSE
put_request_temp_state(u, b) == Put(request_temp, u, b)

\* An avatar request slot: the handler it runs, its path and token arguments,
\* the flag it read, and (history) the state of temp_since when it read it.
HIdle == [pc |-> "idle", uuid |-> None, token |-> 0, temp_state |-> FALSE, seen |-> "none"]
NoFiles == [avatar |-> FALSE, temp |-> "none"]

AvatarInit ==
    /\ request_temp = EmptyMap
    /\ files = [u \in Users |-> NoFiles]
    /\ http = [q \in Reqs |-> HIdle]
    /\ temp_since = [u \in Users |-> "none"]

is_requesting_self(u, t) == get(t) # NoInfo /\ get(t).uuid = u

\* 60 seconds pass over a temp file: SystemTime::now() > modified + 60 s.
age(u) ==
    /\ files[u].temp = "fresh"
    /\ files' = [files EXCEPT ![u].temp = "old"]
    /\ last' = ObsNone
    /\ input' = NoInput
    /\ UNCHANGED <<request_temp, http, temp_since, evt>>
    /\ UNCHANGED <<regVars, nextToken, vreq, wsVars>>

\* user_info, line 38: the flag is read.
user_info_begin(q, u, t) ==
    /\ http[q].pc = "idle"
    /\ http' = [http EXCEPT ![q] = [pc |-> "user_info", uuid |-> u, token |-> t,
                                    temp_state |-> request_temp_state(u),
                                    seen |-> temp_since[u]]]
    /\ last' = ObsNone
    /\ input' = NoInput
    /\ UNCHANGED <<request_temp, files, temp_since, evt>>
    /\ UNCHANGED <<regVars, nextToken, vreq, wsVars>>

\* user_info, lines 39-57: the file is chosen, the flag is put, and the answer
\* is 400 for an unregistered user.  The observation names the chosen file.
user_info_select(q) ==
    /\ http[q].pc = "user_info"
    /\ LET u == http[q].uuid
           request_self_avatar == is_requesting_self(u, http[q].token)
           outdated == files[u].temp = "old"
           temp == ~http[q].temp_state /\ request_self_avatar /\ ~outdated
       IN /\ request_temp' = IF temp THEN put_request_temp_state(u, TRUE)
                             ELSE request_temp
          /\ temp_since' = IF temp /\ files[u].temp = "fresh"
                           THEN [temp_since EXCEPT ![u] = "consumed"]
                           ELSE temp_since
          /\ last' = Obs("user_info", q, IF temp THEN "temp" ELSE "avatar",
                         IF get_by_uuid(u) = NoInfo THEN 400 ELSE 200, u, NoBytes)
    /\ http' = [http EXCEPT ![q] = HIdle]
    /\ input' = NoInput
    /\ UNCHANGED <<files, evt>>
    /\ UNCHANGED <<regVars, nextToken, vreq, wsVars>>

\* download_avatar: the owner's download reads the temp file and removes it.
download_avatar(u, t) ==
    /\ files[u].temp # "none" \/ files[u].avatar
    /\ files' = IF is_requesting_self(u, t) /\ files[u].temp # "none"
                THEN [files EXCEPT ![u].temp = "none"]
                ELSE files
    /\ last' = Http("download_avatar", t, 200, u)
    /\ input' = NoInput
    /\ UNCHANGED <<request_temp, http, temp_since, evt>>
    /\ UNCHANGED <<regVars, nextToken, vreq, wsVars>>

\* internal temp_avatar, lines 26-32: the flag is put to false for a known user.
temp_avatar_begin(q, u) ==
    /\ http[q].pc = "idle"
    /\ IF get_by_uuid(u) = NoInfo
       THEN /\ last' = Http("temp_avatar", q, 200, "ok")
            /\ UNCHANGED <<request_temp, http, temp_since>>
       ELSE /\ request_temp' = put_request_temp_state(u, FALSE)
            /\ http' = [http EXCEPT ![q] = [HIdle EXCEPT !.pc = "temp_avatar", !.uuid = u]]
            /\ temp_since' = [temp_since EXCEPT ![u] = "uploading"]
            /\ last' = ObsNone
    /\ input' = NoInput
    /\ UNCHANGED <<files, evt>>
    /\ UNCHANGED <<regVars, nextToken, vreq, wsVars>>

\* internal temp_avatar, lines 33-37: the file is created and written.
temp_avatar_store(q) ==
    /\ http[q].pc = "temp_avatar"
    /\ files' = [files EXCEPT ![http[q].uuid].temp = "fresh"]
    /\ http' = [http EXCEPT ![q] = HIdle]
    /\ temp_since' = [temp_since EXCEPT ![http[q].uuid] = "uploaded"]
    /\ last' = Http("temp_avatar", q, 200, "ok")
    /\ input' = NoInput
    /\ UNCHANGED <<request_temp, evt>>
    /\ UNCHANGED <<regVars, nextToken, vreq, wsVars>>

\* upload_avatar: a caller the registry knows, allowed to upload (upload_state,
\* a per-user flag of the user manager, is the input can), writes <uuid>.moon.
upload_avatar(t, can) ==
    /\ IF get(t) = NoInfo
       THEN /\ last' = Http("upload_avatar", t, 200, "ok")
            /\ UNCHANGED files
       ELSE IF ~can
       THEN /\ last' = Http("upload_avatar", t, 403, "forbidden")
            /\ UNCHANGED files
       ELSE /\ files' = [files EXCEPT ![get(t).uuid].avatar = TRUE]
            /\ last' = Http("upload_avatar", t, 200, "ok")
    /\ input' = NoInput
    /\ UNCHANGED <<request_temp, http, temp_since, evt>>
    /\ UNCHANGED <<regVars, nextToken, vreq, wsVars>>

\* equip_avatar: 401 for an unknown token, else send_event for the caller.
equip_avatar(t) ==
    IF get(t) = NoInfo
    THEN /\ last' = Http("equip_avatar", t, 401, "unauthorized")
         /\ input' = NoInput
         /\ UNCHANGED <<avatarVars, evt>>
         /\ UNCHANGED <<regVars, nextToken, vreq, wsVars>>
    ELSE send_event_topic(get(t).uuid)

\* delete_avatar: remove_file, then send_event; a missing file is an internal
\* error and an unknown token is answered "ok" with nothing done.
delete_avatar(t) ==
    IF get(t) # NoInfo /\ files[get(t).uuid].avatar
    THEN /\ evt = None
         /\ evt' = get(t).uuid
         /\ files' = [files EXCEPT ![get(t).uuid].avatar = FALSE]
         /\ relay' = IF get(t).uuid \in DOMAIN broadcasts
                     THEN Publish(relay, broadcasts[get(t).uuid], S2CEvent(get(t).uuid))
                     ELSE relay
         /\ last' = ObsNone
         /\ input' = NoInput
         /\ UNCHANGED <<request_temp, http, temp_since>>
         /\ UNCHANGED <<session, broadcasts, nextChan, conn, nextRelay>>
         /\ UNCHANGED <<regVars, nextToken, vreq>>
    ELSE /\ last' = Http("delete_avatar", t, IF get(t) = NoInfo THEN 200 ELSE 500, "")
         /\ input' = NoInput
         /\ UNCHANGED <<avatarVars, evt>>
         /\ UNCHANGED <<regVars, nextToken, vreq, wsVars>>

\* ---------------------------------------------------------------- specification
Init ==
    /\ nextToken = 1
    /\ pending = EmptyMap
    /\ authenticated = EmptyMap
    /\ registered = EmptyMap
    /\ banned = {}
    /\ vreq = [t \in Tokens |-> VIdle]
    /\ session = EmptyMap
    /\ broadcasts = EmptyMap
    /\ nextChan = 1
    /\ conn = [c \in Conns |-> ConnNew]
    /\ relay = [r \in Relays |-> RelayNone]
    /\ nextRelay = 1
    /\ evt = None
    /\ AvatarInit
    /\ input = NoInput
    /\ last = ObsNone

Next ==
    \/ \E u \in Users : id(u)
    \/ \E t \in Tokens : verify_absent(t)
    \/ \E t \in Tokens : verify_begin(t)
    \/ \E t \in Tokens, r \in {"err", "none", "some"} : verify_joined(t, r)
    \/ \E t \in Tokens : verify_remove(t)
    \/ \E t \in Tokens : verify_retry(t)
    \/ \E u \in Users : ban(u)
    \/ \E c \in Conns : ws_connect(c)
    \/ \E c \in Conns : ws_close(c)
    \/ \E c \in Conns, buf \in Frames, ok \in BOOLEAN : ws_frame(c, buf, ok)
    \/ \E c \in Conns, ok \in BOOLEAN : ws_token_insert(c, ok)
    \/ \E c \in Conns : ws_sub_insert(c)
    \/ \E c \in Conns : ws_ban_close(c)
    \/ \E c \in Conns, ok \in BOOLEAN : ws_deliver(c, ok)
    \/ \E r \in Relays : subscribe_shutdown(r)
    \/ \E r \in Relays : subscribe_recv(r)
    \/ \E r \in Relays : subscribe_send(r)
    \/ \E u \in Users : send_event_topic(u)
    \/ \E u \in Users : send_event_session(u)

Spec == Init /\ [][Next]_vars

\* ------------------------------------------------- the handshake and the logins
\* The handshake, the ban list and the sessions' logins and logouts, with
\* every client free to present any token on any connection; no pings,
\* subscriptions or events.
LoginFrames == {TokenFrame(t) : t \in Tokens} \cup BadFrames

NextAuth ==
    \/ \E u \in Users : id(u)
    \/ \E t \in Tokens : verify_absent(t)
    \/ \E t \in Tokens : verify_begin(t)
    \/ \E t \in Tokens, r \in {"err", "none", "some"} : verify_joined(t, r)
    \/ \E t \in Tokens : verify_remove(t)
    \/ \E t \in Tokens : verify_retry(t)
    \/ \E u \in Users : ban(u)
    \/ \E c \in Conns : ws_connect(c)
    \/ \E c \in Conns : ws_close(c)
    \/ \E c \in Conns, buf \in LoginFrames, ok \in BOOLEAN : ws_frame(c, buf, ok)
    \/ \E c \in Conns, ok \in BOOLEAN : ws_token_insert(c, ok)
    \/ \E c \in Conns : ws_ban_close(c)

SpecAuth == Init /\ [][NextAuth]_vars

\* --------------------------------------------------------- pings and relays
\* Connection c belongs to the client that ran handshake c: it presents token
\* c only.  The oracle accepts every handshake and nobody is banned.
ClientFrames(c) == PingFrames \cup {TokenFrame(c)}
                              \cup {SubFrame(u) : u \in Users}
                              \cup {UnsubFrame(u) : u \in Users}

NextPubSub ==
    \/ \E u \in Users : id(u)
    \/ \E t \in Tokens : verify_begin(t)
    \/ \E t \in Tokens : verify_joined(t, "some")
    \/ \E c \in Conns : ws_connect(c)
    \/ \E c \in Conns : ws_close(c)
    \/ \E c \in Conns : \E buf \in ClientFrames(c), ok \in BOOLEAN : ws_frame(c, buf, ok)
    \/ \E c \in Conns, ok \in BOOLEAN : ws_token_insert(c, ok)
    \/ \E c \in Conns : ws_sub_insert(c)
    \/ \E c \in Conns, ok \in BOOLEAN : ws_deliver(c, ok)
    \/ \E r \in Relays : subscribe_shutdown(r)
    \/ \E r \in Relays : subscribe_recv(r)
    \/ \E r \in Relays : subscribe_send(r)

SpecPubSub == Init /\ [][NextPubSub]_vars

\* The same system with the scheduler's guarantee stated: a relay task that
\* can take a step (a branch of its select! is ready) is polled in the end.
RelayFairness ==
    \A r \in Relays : /\ WF_vars(subscribe_shutdown(r))
                      /\ WF_vars(subscribe_recv(r))
                      /\ WF_vars(subscribe_send(r))

SpecPubSubFair == SpecPubSub /\ RelayFairness

\* ------------------------------------------------------------------- events
\* The same clients, sending no pings, while send_event runs for any user;
\* client 1 is user X and every later client is user Y.
ClientUser(t) == IF t = 1 THEN "X" ELSE "Y"
EventFrames(c) == ClientFrames(c) \ PingFrames

NextEvent ==
    \/ id(ClientUser(nextToken))
    \/ \E t \in Tokens : verify_begin(t)
    \/ \E t \in Tokens : verify_joined(t, "some")
    \/ \E c \in Conns : ws_connect(c)
    \/ \E c \in Conns : ws_close(c)
    \/ \E c \in Conns : \E buf \in EventFrames(c) : ws_frame(c, buf, TRUE)
    \/ \E c \in Conns : ws_token_insert(c, TRUE)
    \/ \E c \in Conns : ws_sub_insert(c)
    \/ \E c \in Conns : ws_deliver(c, TRUE)
    \/ \E r \in Relays : subscribe_shutdown(r)
    \/ \E r \in Relays : subscribe_recv(r)
    \/ \E r \in Relays : subscribe_send(r)
    \/ \E u \in Users : send_event_topic(u)
    \/ \E u \in Users : send_event_session(u)

SpecEvent == Init /\ [][NextEvent]_vars

\* ------------------------------------------------------ bans during a session
\* The clients of SpecEvent, pings included, every send succeeding, while the
\* ban list is reloaded at any moment.
NextBan ==
    \/ id(ClientUser(nextToken))
    \/ \E t \in Tokens : verify_begin(t)
    \/ \E t \in Tokens : verify_joined(t, "some")
    \/ \E u \in Users : ban(u)
    \/ \E c \in Conns : ws_connect(c)
    \/ \E c \in Conns : ws_close(c)
    \/ \E c \in Conns : \E buf \in ClientFrames(c) : ws_frame(c, buf, TRUE)
    \/ \E c \in Conns : ws_token_insert(c, TRUE)
    \/ \E c \in Conns : ws_sub_insert(c)
    \/ \E c \in Conns : ws_ban_close(c)
    \/ \E c \in Conns : ws_deliver(c, TRUE)
    \/ \E r \in Relays : subscribe_shutdown(r)
    \/ \E r \in Relays : subscribe_recv(r)
    \/ \E r \in Relays : subscribe_send(r)

SpecBan == Init /\ [][NextBan]_vars

\* ------------------------------------------------------------ order of frames
\* A publisher that sends two different pings, in any order and any number of
\* times, to subscribers that stay; every send succeeds and nobody leaves.
FifoPings == {<<1, 0, 0, 0, 1, 1, 11>>, <<1, 0, 0, 0, 2, 1, 22>>}
FifoFrames(c) == FifoPings \cup {TokenFrame(c)} \cup {SubFrame(u) : u \in Users}

NextFifo ==
    \/ id(ClientUser(nextToken))
    \/ \E t \in Tokens : verify_begin(t)
    \/ \E t \in Tokens : verify_joined(t, "some")
    \/ \E c \in Conns : ws_connect(c)
    \/ \E c \in Conns : \E buf \in FifoFrames(c) : ws_frame(c, buf, TRUE)
    \/ \E c \in Conns : ws_token_insert(c, TRUE)
    \/ \E c \in Conns : ws_sub_insert(c)
    \/ \E c \in Conns : ws_deliver(c, TRUE)
    \/ \E r \in Relays : subscribe_recv(r)
    \/ \E r \in Relays : subscribe_send(r)

SpecFifo == Init /\ [][NextFifo]_vars

\* ------------------------------------------------------------ the ping rewrite
\* into_s2c_ping on its own: the frame is drawn at the start, the publisher
\* when the function is applied.
MaxData == 2
CodecBytes == {0, 255}
SeqsUpTo(S, n) == UNION {[1..k -> S] : k \in 0..n}
CodecFrames == {<<1>> \o i \o <<b>> \o d :
                    i \in [1..4 -> CodecBytes], b \in {0, 1},
                    d \in SeqsUpTo(CodecBytes, MaxData)}

InitCodec ==
    /\ nextToken = 1
    /\ pending = EmptyMap
    /\ authenticated = EmptyMap
    /\ registered = EmptyMap
    /\ banned = {}
    /\ vreq = [t \in Tokens |-> VIdle]
    /\ session = EmptyMap
    /\ broadcasts = EmptyMap
    /\ nextChan = 1
    /\ conn = [c \in Conns |-> ConnNew]
    /\ relay = [r \in Relays |-> RelayNone]
    /\ nextRelay = 1
    /\ evt = None
    /\ AvatarInit
    /\ input \in {Input(0, f) : f \in CodecFrames}
    /\ last = ObsNone

\* The rewritten frame of publisher u, as the Ping arm computes it.
codec_ping(u) ==
    /\ last.op = "none"
    /\ last' = Obs("into_s2c_ping", 0, "bytes", 0, u, into_s2c_ping(input.frame, u))
    /\ UNCHANGED <<nextToken, pending, authenticated, registered, banned, vreq,
                   session, broadcasts, nextChan, conn, relay, nextRelay, evt, avatarVars, input>>

NextCodec == \E u \in Users : codec_ping(u)

SpecCodec == InitCodec /\ [][NextCodec]_vars

\* ----------------------------------------------------- the S2C round trip
\* A message is drawn at the start, encoded, and the bytes are decoded.
S2CTexts == {<<>>, <<72>>, <<72, 105>>}
S2CMessages ==
    {MsgAuth}
    \cup {MsgPing(u, i, sync, d) : u \in Users, i \in {0, 5, 16909060},
                                  sync \in BOOLEAN,
                                  d \in SeqsUpTo(CodecBytes, MaxData)}
    \cup {MsgEvent(u) : u \in Users}
    \cup {MsgToast(t, h, FALSE, NoBytes) : t \in {0, 2}, h \in S2CTexts}
    \cup {MsgToast(t, h, TRUE, d) : t \in {0, 2}, h \in S2CTexts, d \in S2CTexts}
    \cup {MsgChat(txt) : txt \in S2CTexts}
    \cup {MsgNotice(t) : t \in {0, 1}}

InitS2C ==
    /\ nextToken = 1
    /\ pending = EmptyMap
    /\ authenticated = EmptyMap
    /\ registered = EmptyMap
    /\ banned = {}
    /\ vreq = [t \in Tokens |-> VIdle]
    /\ session = EmptyMap
    /\ broadcasts = EmptyMap
    /\ nextChan = 1
    /\ conn = [c \in Conns |-> ConnNew]
    /\ relay = [r \in Relays |-> RelayNone]
    /\ nextRelay = 1
    /\ evt = None
    /\ AvatarInit
    /\ input = NoInput
    /\ last \in {Obs("S2CMessage", 0, "message", 0, m, NoBytes) : m \in S2CMessages}

\* The message is turned into its bytes.
s2c_into ==
    /\ last.op = "S2CMessage" /\ input = NoInput
    /\ input' = Input(0, S2CMessage_into(last.body))
    /\ UNCHANGED <<nextToken, pending, authenticated, registered, banned, vreq,
                   session, broadcasts, nextChan, conn, relay, nextRelay, evt, avatarVars, last>>

\* The bytes are read back.
s2c_try_from ==
    /\ last.op = "S2CMessage" /\ input # NoInput
    /\ last' = Obs("try_from", 0, S2CMessage_try_from(input.frame).kind, 0,
                   S2CMessage_try_from(input.frame).msg, input.frame)
    /\ UNCHANGED <<nextToken, pending, authenticated, registered, banned, vreq,
                   session, broadcasts, nextChan, conn, relay, nextRelay, evt, avatarVars, input>>

NextS2C == s2c_into \/ s2c_try_from

SpecS2C == InitS2C /\ [][NextS2C]_vars

\* ---------------------------------------------------------- the temp avatars
\* Client 1 logs in as X and client 2 as Y; the internal API uploads temp
\* avatars, and anybody asks for anybody's user info; time passes.
NextTemp ==
    \/ id(ClientUser(nextToken))
    \/ \E t \in Tokens : verify_begin(t)
    \/ \E t \in Tokens : verify_joined(t, "some")
    \/ \E u \in Users : age(u)
    \/ \E q \in Reqs, u \in Users, t \in Tokens : user_info_begin(q, u, t)
    \/ \E q \in Reqs : user_info_select(q)
    \/ \E u \in Users, t \in Tokens : download_avatar(u, t)
    \/ \E q \in Reqs, u \in Users : temp_avatar_begin(q, u)
    \/ \E q \in Reqs : temp_avatar_store(q)

SpecTemp == Init /\ [][NextTemp]_vars

\* -------------------------------------------------------- the stored avatars
\* Client c logs in with token c and opens connection c; the clients upload,
\* equip and delete their avatars.
NextAvatar ==
    \/ id(ClientUser(nextToken))
    \/ \E t \in Tokens : verify_begin(t)
    \/ \E t \in Tokens : verify_joined(t, "some")
    \/ \E c \in Conns : ws_connect(c)
    \/ \E c \in Conns : ws_frame(c, TokenFrame(c), TRUE)
    \/ \E c \in Conns : ws_token_insert(c, TRUE)
    \/ \E c \in Conns : ws_deliver(c, TRUE)
    \/ \E t \in Tokens, can \in BOOLEAN : upload_avatar(t, can)
    \/ \E t \in Tokens : equip_avatar(t)
    \/ \E t \in Tokens : delete_avatar(t)
    \/ \E u \in Users : send_event_session(u)

SpecAvatar == Init /\ [][NextAvatar]_vars

\* ---------------------------------------------------------- the handshake alone
\* Three handshakes, for any users and with any answer of the oracle, with
\* their /verify calls running side by side, and the ban list changing; no
\* WebSocket connection.
InitLogin ==
    /\ nextToken = 1
    /\ pending = EmptyMap
    /\ authenticated = EmptyMap
    /\ registered = EmptyMap
    /\ banned = {}
    /\ vreq = [t \in Logins |-> VIdle]
    /\ session = EmptyMap
    /\ broadcasts = EmptyMap
    /\ nextChan = 1
    /\ conn = [c \in Conns |-> ConnNew]
    /\ relay = [r \in Relays |-> RelayNone]
    /\ nextRelay = 1
    /\ evt = None
    /\ AvatarInit
    /\ input = NoInput
    /\ last = ObsNone

NextLogin ==
    \/ \E u \in Users : id_upto(u, MaxLogins)
    \/ \E t \in Logins : verify_absent(t)
    \/ \E t \in Logins : verify_begin(t)
    \/ \E t \in Logins, r \in {"err", "none", "some"} : verify_joined(t, r)
    \/ \E t \in Logins : verify_remove(t)
    \/ \E t \in Logins : verify_retry(t)
    \/ \E u \in Users : ban(u)

SpecLogin == InitLogin /\ [][NextLogin]_vars

\* ------------------------------------------------------- publishing sessions
\* Both users log in; every client may present any token on any connection,
\* publish and subscribe; every send succeeds.
PublishFrames == PingFrames \cup {TokenFrame(t) : t \in Tokens}
                            \cup {SubFrame(u) : u \in Users}

NextPublish ==
    \/ id(ClientUser(nextToken))
    \/ \E t \in Tokens : verify_begin(t)
    \/ \E t \in Tokens : verify_joined(t, "some")
    \/ \E c \in Conns : ws_connect(c)
    \/ \E c \in Conns, buf \in PublishFrames : ws_frame(c, buf, TRUE)
    \/ \E c \in Conns : ws_token_insert(c, TRUE)
    \/ \E c \in Conns : ws_sub_insert(c)
    \/ \E c \in Conns : ws_deliver(c, TRUE)
    \/ \E r \in Relays : subscribe_recv(r)
    \/ \E r \in Relays : subscribe_send(r)

SpecPublish == Init /\ [][NextPublish]_vars

\* C5: the bytes published for a C2S ping are 0x01, then the publisher's 16
\* bytes, then the input from its second byte on: nothing added, removed or
\* changed.
C5_PingRewriteExact ==
    last.op = "into_s2c_ping" =>
        LET buf == input.frame
            out == last.data
            U == UuidBytes(last.body)
        IN  /\ Len(out) = Len(buf) + 16
            /\ out[1] = 1
            /\ \A i \in 1..16 : out[1 + i] = U[i]
            /\ \A i \in 2..Len(buf) : out[16 + i] = buf[i]

\* C5 witness: a ping with two data bytes rewritten for publisher Y.
C5_Witness ==
    /\ last.op = "into_s2c_ping" /\ last.body = "Y"
    /\ Len(input.frame) = 8 /\ input.frame[8] = 255
    /\ Len(last.data) = 24

\* ======================================================================
\* Properties of the handshake and the logins (SpecAuth)
\* ======================================================================

\* The step is the successful end of the Stage-2 call for token t.
VerifyOk(t) ==
    /\ vreq[t].pc \in {"has_joined", "retry"}
    /\ vreq'[t].pc = "idle"
    /\ last' = Http("verify", t, 200, "server_id")

\* Invariant R2: no two authenticated records carry the same user id.
OneInfoPerUser ==
    /\ \A t1, t2 \in DOMAIN authenticated :
          authenticated[t1].uuid = authenticated[t2].uuid => t1 = t2
    /\ \A u \in DOMAIN registered : registered[u].uuid = u

\* What a successful Stage 2 for token t and user u leaves behind: both views
\* return the record with token t, and no other token is registered for u.
LatestTokenWins(t, u) ==
    /\ u \in DOMAIN registered' /\ registered'[u].token = t
    /\ t \in DOMAIN authenticated' /\ authenticated'[t] = registered'[u]
    /\ authenticated'[t].uuid = u
    /\ \A t1 \in DOMAIN authenticated' \ {t} : authenticated'[t1].uuid # u

\* C1: every successful Stage 2 for a user leaves get_by_uuid(id).token equal
\* to the token just verified, get(that token) returning the user's record
\* and every earlier token of the user absent; in every reachable state there
\* is at most one authenticated record per user id.
C1_SingleActiveSession ==
    /\ []OneInfoPerUser
    /\ [][\A t \in Tokens :
            VerifyOk(t) => LatestTokenWins(t, UserOfNick(vreq[t].nickname))]_vars

\* C1 witness: token 2 has just been verified for a user whose session on
\* some connection was opened with token 1, and token 1 is gone.
C1_Witness ==
    /\ last = Http("verify", 2, 200, "server_id")
    /\ \E u \in DOMAIN registered, c \in Conns :
          /\ registered[u].token = 2
          /\ conn[c].st = "open" /\ conn[c].owner = u /\ conn[c].tok = 1
    /\ 1 \notin DOMAIN authenticated

\* The step ends the session task of connection c through its closing code.
Terminates(c) == conn[c].st = "open" /\ conn'[c].st = "done"

\* C2: when a session opened with token T1 as user X terminates after a later
\* Stage 2 has replaced X's record by one with token T2, the registry still
\* returns that record for T2 and for X, and the SessionMap entry of X, if it
\* is another connection's queue, stays.
C2_TeardownSparesNewLogin ==
    [][\A c \in Conns :
          LET u == conn[c].owner IN
          (/\ Terminates(c)
           /\ u # None
           /\ u \in DOMAIN registered
           /\ registered[u].token # conn[c].tok)
          => /\ u \in DOMAIN registered' /\ registered'[u] = registered[u]
             /\ registered[u].token \in DOMAIN authenticated'
             /\ authenticated'[registered[u].token] = registered[u]
             /\ (u \in DOMAIN session /\ session[u] # c)
                   => (u \in DOMAIN session' /\ session'[u] = session[u])]_vars

\* Connection c is live and has authenticated as u.
LiveAs(c, u) == conn[c].st = "open" /\ conn[c].owner = u

\* C3: the SessionMap has an entry for a user id exactly when a live
\* connection has authenticated as that id, and the entry is the queue of
\* such a connection.
C3_SessionMapMatchesConnections ==
    /\ \A u \in DOMAIN session : LiveAs(session[u], u)
    /\ \A u \in Users : (\E c \in Conns : LiveAs(c, u)) => u \in DOMAIN session

\* C6: a Stage-2 call with an id that is not pending answers 400 and leaves
\* the pending table, the authenticated tables and the ban set unchanged.
C6_UnknownIdRejected ==
    [][\A t \in Tokens :
          (/\ t \notin DOMAIN pending
           /\ vreq[t].pc = "idle"
           /\ last'.op = "verify" /\ last'.who = t)
          => /\ last'.kind = "response" /\ last'.code = 400
             /\ UNCHANGED <<pending, authenticated, registered, banned>>]_vars

\* The step is the Stage-2 call for token t getting its answer from has_joined.
OracleAnswers(t) == vreq[t].pc = "has_joined" /\ vreq'[t].pc # "has_joined"

\* C7: when has_joined returns a user id that is in the ban set, Stage 2
\* answers 400 "You're banned!", the call is over, and both authenticated
\* tables are as they were (nothing inserted, nothing evicted).
C7_BanPrecedence ==
    [][\A t \in Tokens :
          (/\ OracleAnswers(t)
           /\ UserOfNick(vreq[t].nickname) \in banned
           /\ last'.body \notin {"internal verify error", "failed to verify"})
          => /\ last' = Http("verify", t, 400, "You're banned!")
             /\ vreq'[t] = VIdle
             /\ UNCHANGED <<authenticated, registered>>]_vars

\* C7 witness: a Stage 2 was just refused for the one banned user, who still
\* has the record of an earlier login.
C7_Witness ==
    /\ last.op = "verify" /\ last.code = 400 /\ last.body = "You're banned!"
    /\ \E u \in Users : banned = {u} /\ u \in DOMAIN registered

\* ======================================================================
\* Properties of pings, subscriptions and events (SpecPubSub, SpecEvent)
\* ======================================================================

\* The step is connection c, at the top of its loop, taking in frame buf.
Takes(c, buf) ==
    /\ conn[c].st = "open" /\ conn[c].pc = "recv"
    /\ input'.who = c /\ input'.frame = buf

\* The receiver of relay r gets frame d in this step.
Gains(r, d) == relay'[r].inbox = Append(relay[r].inbox, d)

\* Relay r is running on channel ch and keeping up with it.
Listening(r, ch) ==
    /\ relay[r].st = "run" /\ relay[r].chan = ch
    /\ ~relay[r].lagged /\ Len(relay[r].inbox) < TopicCap

\* Session s holds an active subscription to the topic with channel ch of
\* user u: its handle for u is that of a relay listening on ch.
Subscribed(s, u, ch) ==
    /\ conn[s].st = "open"
    /\ u \in DOMAIN conn[s].cutoff
    /\ Listening(conn[s].cutoff[u], ch)

\* C4: when U's authenticated session takes in a Ping, each session with an
\* active subscription to U's topic gets that ping exactly once, as
\* [0x01, U's 16 bytes, id, sync, data].
C4_FanOutExactlyOnce ==
    [][\A c \in Conns, buf \in PingFrames :
          (Takes(c, buf) /\ conn[c].owner # None) =>
              \A s \in Conns :
                  Subscribed(s, conn[c].owner, conn[c].bctx) =>
                      Cardinality({r \in Relays :
                          /\ relay[r].st = "run" /\ relay[r].conn = s
                          /\ Gains(r, <<1>> \o UuidBytes(conn[c].owner)
                                           \o SubSeq(buf, 2, Len(buf)))}) = 1]_vars

\* C8: in an authenticated session a Sub or Unsub frame that names the owner
\* spawns no relay, leaves the subscription map and every registry as they
\* are, raises no error and leaves the connection open.
C8_SelfSubIgnored ==
    [][\A c \in Conns :
          (/\ conn[c].owner # None
           /\ conn[c].owner \notin banned
           /\ \/ Takes(c, SubFrame(conn[c].owner))
              \/ Takes(c, UnsubFrame(conn[c].owner)))
          => /\ conn'[c] = conn[c]
             /\ last' = ObsNone
             /\ UNCHANGED <<relay, nextRelay, session, broadcasts, nextChan,
                            authenticated, registered>>]_vars

\* C8 witness: a session that holds a subscription to another user has just
\* taken in an Unsub naming its own owner and is still open.
C8_Witness ==
    \E c \in Conns :
        /\ conn[c].st = "open" /\ conn[c].owner # None
        /\ input = Input(c, UnsubFrame(conn[c].owner))
        /\ DOMAIN conn[c].cutoff # {}

\* C10: in an unauthenticated session a Ping, Sub or Unsub frame is ignored:
\* the session stays open and unauthenticated, nothing is published and no
\* subscription is made or dropped.
C10_UnauthenticatedFramesIgnored ==
    [][\A c \in Conns, buf \in Frames :
          (/\ Takes(c, buf)
           /\ conn[c].owner = None
           /\ buf # <<>>
           /\ C2SDecode(buf).op \in {"Ping", "Sub", "Unsub"})
          => /\ conn'[c] = conn[c]
             /\ UNCHANGED <<relay, nextRelay, session, broadcasts>>]_vars

\* C9: send_event(id) puts exactly one Event(id) on the queue the SessionMap
\* holds for id, if it holds one, and exactly one Event(id) on the topic of
\* id, which every session subscribed to id gets; it never fails.
C9_EventDelivered ==
    [][\A u \in Users :
          /\ (evt = None /\ evt' = u) =>
                \A s \in Conns, ch \in Chans :
                    Subscribed(s, u, ch) => Gains(conn[s].cutoff[u], S2CEvent(u))
          /\ (evt = u /\ evt' = None) =>
                /\ last'.kind # "panic"
                /\ IF u \in DOMAIN session
                   THEN conn'[session[u]].mq =
                            Append(conn[session[u]].mq, S2CEvent(u))
                   ELSE conn' = conn]_vars

\* ======================================================================
\* Properties of the session loop's Token arm and ban check
\* ======================================================================

\* The owner of connection c is in the ban set: the loop answers every frame
\* with the ban branch before looking at it.
OwnerBanned(c) == conn[c].owner # None /\ is_banned(conn[c].owner)

\* Frame buf is a Token frame whose payload is text (section 4.1: the ASCII
\* session token) that names no record of the token view.
TokenMiss(buf) ==
    /\ buf # <<>>
    /\ C2SDecode(buf).op = "Token"
    /\ IsUtf8(C2SDecode(buf).arg)
    /\ get(TokenOfStr(C2SDecode(buf).arg)) = NoInfo

TokenHit(buf) ==
    /\ buf # <<>>
    /\ C2SDecode(buf).op = "Token"
    /\ IsUtf8(C2SDecode(buf).arg)
    /\ get(TokenOfStr(C2SDecode(buf).arg)) # NoInfo

\* The user id of the record a Token frame names.
HitUser(buf) == get(TokenOfStr(C2SDecode(buf).arg)).uuid

\* After this step connection c holds, as its publish handle, the topic
\* registered for its owner, and the step has sent it the Auth frame.
AuthSent(c) ==
    /\ last' = WsBinary(c, S2CAuth)
    /\ conn'[c].pc = "recv"
    /\ conn'[c].owner \in DOMAIN broadcasts'
    /\ conn'[c].bctx = broadcasts'[conn'[c].owner]

C13_BannedFramesRejected ==
    [][\A c \in Conns :
          /\ \A buf \in Frames :
                (Takes(c, buf) /\ OwnerBanned(c))
                => /\ last' = WsBinary(c, S2CToast(2, BannedText))
                   /\ conn'[c] = [conn[c] EXCEPT !.pc = "ban_sleep"]
                   /\ UNCHANGED <<relay, nextRelay, session, broadcasts, nextChan,
                                  pending, authenticated, registered, banned>>
          /\ (conn[c].pc = "ban_sleep" /\ conn'[c].pc # "ban_sleep")
                => /\ last' = WsClose(c, 4001, "You're banned!")
                   /\ conn'[c] = [conn[c] EXCEPT !.pc = "recv"]
                   /\ UNCHANGED <<relay, nextRelay, session, broadcasts, nextChan,
                                  pending, authenticated, registered, banned>>
          /\ last' = WsClose(c, 4001, "You're banned!")
                => conn[c].pc = "ban_sleep"]_vars

\* C13 witness: a banned owner's Ping was just answered with the Toast while
\* a relay listens on the owner's topic with nothing to read: the ping was
\* not published.
C13_Witness ==
    \E c \in Conns, r \in Relays :
        /\ last = WsBinary(c, S2CToast(2, BannedText))
        /\ input.who = c /\ input.frame \in PingFrames
        /\ conn[c].pc = "ban_sleep" /\ conn[c].owner \in banned
        /\ relay[r].st = "run" /\ relay[r].chan = conn[c].bctx
        /\ relay[r].inbox = <<>> /\ relay[r].hand = <<>> /\ ~relay[r].lagged

\* ======================================================================
\* Properties of termination and of the registry's views
\* ======================================================================

\* The handshake of token t is over: t was minted, is no longer pending and
\* no Stage-2 call for it is in flight.
SpentHandshake(t) ==
    /\ t < nextToken
    /\ t \notin DOMAIN pending
    /\ vreq[t].pc = "idle"

\* The owner the closing code of connection c sees in this step: the one a
\* Token frame of this very step has set, or else the one the session had.
ClosingOwner(c) ==
    IF input'.who = c /\ TokenHit(input'.frame)
    THEN HitUser(input'.frame)
    ELSE conn[c].owner

C15_RelaysCancelledAtTermination ==
    \A r \in Relays :
        (relay[r].st = "run" /\ QueueClosed(relay[r].conn)) ~> (relay[r].st = "done")

C17_PendingDisjoint ==
    /\ [](DOMAIN pending \cap DOMAIN authenticated = {})
    /\ [][\A t \in Tokens :
            (t \in DOMAIN authenticated' /\ t \notin DOMAIN authenticated)
            => (t \notin DOMAIN pending /\ t \notin DOMAIN pending')]_vars

\* C17 witness: token 1 has just been verified while token 2 is pending.
C17_Witness ==
    /\ last = Http("verify", 1, 200, "server_id")
    /\ 1 \in DOMAIN authenticated /\ 1 \notin DOMAIN pending
    /\ 2 \in DOMAIN pending

\* ======================================================================
\* Properties of the topics
\* ======================================================================

\* C18: the topic registered for an id is never replaced by another one, every
\* authenticated session at the top of its loop holds the topic registered for
\* its owner as its publish handle, and every running relay a session keeps
\* for a target listens on the topic registered for that target.
C18_OneTopicPerId ==
    /\ [][\A u \in DOMAIN broadcasts :
            u \in DOMAIN broadcasts' /\ broadcasts'[u] = broadcasts[u]]_vars
    /\ [](\A c \in Conns :
            (conn[c].st = "open" /\ conn[c].pc = "recv" /\ conn[c].owner # None)
            => /\ conn[c].owner \in DOMAIN broadcasts
               /\ conn[c].bctx = broadcasts[conn[c].owner])
    /\ [](\A c \in Conns : \A u \in DOMAIN conn[c].cutoff :
            relay[conn[c].cutoff[u]].st = "run"
            => /\ u \in DOMAIN broadcasts
               /\ relay[conn[c].cutoff[u]].chan = broadcasts[u])

\* Sequence new is sequence old with one element added at the end.
JoinsAtTail(old, new) ==
    /\ Len(new) = Len(old) + 1
    /\ SubSeq(new, 1, Len(old)) = old

\* In this step the receiver of relay r keeps its frames in order: a frame
\* joins at the tail, or the oldest one leaves for the relay's hand, or the
\* receiver is lost (lagged or dropped).
ReceiverInOrder(r) ==
    relay'[r].inbox # relay[r].inbox =>
        \/ JoinsAtTail(relay[r].inbox, relay'[r].inbox)
        \/ /\ relay[r].inbox # <<>>
           /\ relay[r].hand = <<>>
           /\ relay'[r].hand = Head(relay[r].inbox)
           /\ relay'[r].inbox = Tail(relay[r].inbox)
        \/ /\ relay'[r].inbox = <<>>
           /\ relay'[r].lagged \/ relay'[r].st # "run"

\* In this step the frame in the hand of relay r goes nowhere but to the tail
\* of its session's queue, unless the relay ends.
HandInOrder(r) ==
    (relay[r].hand # <<>> /\ relay'[r].hand # relay[r].hand) =>
        /\ relay'[r].hand = <<>>
        /\ \/ relay'[r].st = "done"
           \/ conn'[relay[r].conn].mq = Append(conn[relay[r].conn].mq, relay[r].hand)

\* In this step the outbound queue of connection c keeps its frames in
\* order: a frame joins at the tail, or the oldest one is sent to the client.
QueueInOrder(c) ==
    conn'[c].mq # conn[c].mq =>
        \/ JoinsAtTail(conn[c].mq, conn'[c].mq)
        \/ /\ conn[c].mq # <<>>
           /\ conn'[c].mq = Tail(conn[c].mq)
           /\ last' = WsBinary(c, Head(conn[c].mq))
        \/ conn'[c].st # "open"

C20_S2CRoundTrip ==
    [][(last.op = "S2CMessage" /\ last'.op = "try_from")
          => (last'.kind = "ok" /\ last'.body = last.body)]_vars

\* ======================================================================
\* Properties of the temp avatars (SpecTemp)
\* ======================================================================

\* The user_info request q answers in this step.
Selects(q) == http[q].pc = "user_info" /\ http'[q].pc = "idle"

\* Request q was made by the owner of the profile it asks for.
ByOwner(q) == is_requesting_self(http[q].uuid, http[q].token)

\* C21: after a temp upload for a user, the first user-info GET of the owner
\* made while the temp file is younger than 60 s chooses the temp file and
\* consumes the flag; every GET made after that one, until the next temp
\* upload, chooses the other file; a GET of somebody else never puts the flag.
C21_TempConsumedOnce ==
    [][\A q \in Reqs :
         Selects(q) =>
           LET u == http[q].uuid IN
           /\ (/\ ByOwner(q)
               /\ http[q].seen = "uploaded" /\ temp_since[u] = "uploaded"
               /\ files[u].temp = "fresh")
                 => (last'.kind = "temp" /\ request_temp' = put_request_temp_state(u, TRUE))
           /\ (http[q].seen = "consumed" /\ temp_since[u] = "consumed")
                 => last'.kind = "avatar"
           /\ ~ByOwner(q) => request_temp' = request_temp]_vars

\* ======================================================================
\* Back-pressure (SpecPubSub)
\* ======================================================================

\* Relay r holds a full ring of frames of channel ch that it has not taken.
FullBehind(r, ch) ==
    relay[r].st = "run" /\ relay[r].chan = ch /\ ~relay[r].lagged
                        /\ Len(relay[r].inbox) = TopicCap

\* C22: a session that is authenticated can always handle a Ping frame, and
\* handles it in one step without waiting, whatever its subscribers hold; a
\* subscriber a full buffer behind loses its place at the next publish, and a
\* relay that lost its place takes no more frames from the topic: it exits.
C22_PublishNeverWaits ==
    /\ [](\A c \in Conns :
            (conn[c].st = "open" /\ conn[c].pc = "recv" /\ conn[c].owner # None)
               => \A buf \in PingFrames : ENABLED ws_frame(c, buf, TRUE))
    /\ [][\A c \in Conns, buf \in PingFrames :
            (Takes(c, buf) /\ conn[c].owner # None /\ ~OwnerBanned(c))
               => /\ conn'[c] = conn[c]
                  /\ \A r \in Relays :
                        FullBehind(r, conn[c].bctx) => relay'[r].lagged]_vars
    /\ [][\A r \in Relays :
            (relay[r].st = "run" /\ relay[r].lagged /\ relay'[r] # relay[r])
               => \/ relay'[r].st = "done"
                  \/ relay'[r] = [relay[r] EXCEPT !.hand = <<>>]
                  \/ relay'[r] = [relay[r] EXCEPT !.notified = TRUE]]_vars

\* A publisher has published past a subscriber that was a full buffer behind,
\* and is back at its loop.
C22_Witness ==
    \E r \in Relays, c \in Conns :
        /\ relay[r].st = "run" /\ relay[r].lagged
        /\ conn[c].st = "open" /\ conn[c].pc = "recv" /\ conn[c].bctx = relay[r].chan
        /\ input.who = c /\ input.frame \in PingFrames

\* Relay r holds a frame it took from the topic and has not forwarded yet.
Holding(r) == relay[r].st = "run" /\ relay[r].hand # <<>>

\* The outbound queue of connection c has no room.
QueueFull(c) == ~QueueClosed(c) /\ Len(conn[c].mq) = QueueCap

\* C23: the relay's forward never waits: a relay that holds a frame can always
\* take its forwarding step, and with the outbound queue full or closed that
\* step is the relay's exit.
C23_ForwardNeverWaits ==
    /\ [](\A r \in Relays : Holding(r) => ENABLED subscribe_send(r))
    /\ [][\A r \in Relays :
            (/\ Holding(r)
             /\ QueueFull(relay[r].conn) \/ QueueClosed(relay[r].conn)
             /\ relay'[r].hand # relay[r].hand)
               => relay'[r].st = "done"]_vars

\* ======================================================================
\* Subscriptions (SpecPubSub)
\* ======================================================================

\* C24: an Unsub frame of an authenticated session for a target it holds no
\* cancellation handle for changes nothing: the session stays at its loop with
\* the same owner and subscription map, and nothing fails.
C24_UnsubUnknownIsNoOp ==
    [][\A c \in Conns, u \in Users :
         (/\ Takes(c, UnsubFrame(u))
          /\ conn[c].owner # None /\ ~OwnerBanned(c)
          /\ u \notin DOMAIN conn[c].cutoff)
            => (conn'[c] = conn[c] /\ relay' = relay /\ last'.kind # "panic")]_vars

\* The relays of session c that run on channel ch and have not been cancelled.
LiveRelays(c, ch) ==
    {r \in Relays : /\ relay[r].st = "run" /\ ~relay[r].notified
                    /\ relay[r].conn = c /\ relay[r].chan = ch}

\* C25: a session has at most one live relay per target, so that one published
\* ping reaches the session once.
C25_OneRelayPerTarget ==
    \A c \in Conns, ch \in Chans :
        conn[c].st = "open" => Cardinality(LiveRelays(c, ch)) <= 1

\* Session c is authenticated, at its loop, and holds no handle for target u:
\* the state a processed Unsub(u) leaves it in until its next Sub(u).
NotSubscribed(c, u) ==
    /\ conn[c].st = "open" /\ conn[c].pc = "recv" /\ conn[c].owner # None
    /\ u # conn[c].owner /\ u \notin DOMAIN conn[c].cutoff

\* Every relay that session c has cancelled has exited.
CancelledGone(c) ==
    \A r \in Relays : ~(relay[r].st = "run" /\ relay[r].conn = c /\ relay[r].notified)

\* C26: an Unsub frame for a subscribed target removes the target's handle
\* and cancels its relay; a cancelled relay exits in the end; and once it has,
\* a frame published on the target's topic reaches no relay of the session.
C26_UnsubStopsDelivery ==
    /\ [][\A c \in Conns, u \in Users :
            (/\ Takes(c, UnsubFrame(u))
             /\ conn[c].owner # None /\ ~OwnerBanned(c)
             /\ u # conn[c].owner /\ u \in DOMAIN conn[c].cutoff)
               => /\ u \notin DOMAIN conn'[c].cutoff
                  /\ relay[conn[c].cutoff[u]].st = "run"
                        => relay'[conn[c].cutoff[u]].notified]_vars
    /\ \A r \in Relays :
          (relay[r].st = "run" /\ relay[r].notified) ~> (relay[r].st # "run")
    /\ [][\A c \in Conns, p \in Conns, buf \in PingFrames :
            (/\ c # p /\ Takes(p, buf) /\ conn[p].owner # None /\ ~OwnerBanned(p)
             /\ NotSubscribed(c, conn[p].owner) /\ CancelledGone(c))
               => \A r \in Relays :
                     relay[r].conn = c => relay'[r].inbox = relay[r].inbox]_vars

\* ======================================================================
\* Failed handshakes (SpecAuth)
\* ======================================================================

\* The answer of the last step is Stage 2's answer to a failed oracle call.
OracleRefused ==
    /\ last'.op = "verify"
    /\ \/ last'.code = 500
       \/ last'.code = 400 /\ last'.body = "failed to verify"

\* C27: when the oracle fails or knows nobody, Stage 2 answers 500 or 400,
\* inserts no Userinfo and evicts no session, and the id is no longer pending;
\* a Stage-2 call with an id that is not pending logs nobody in, does not
\* reach the oracle and leaves the tables as they are.
C27_FailedVerifyChangesNothing ==
    [][\A t \in Tokens :
         /\ (OracleAnswers(t) /\ OracleRefused)
               => /\ UNCHANGED <<authenticated, registered, session, pending>>
                  /\ t \notin DOMAIN pending
                  /\ vreq'[t] = VIdle
         /\ (/\ t \notin DOMAIN pending /\ vreq[t].pc = "idle"
             /\ last'.op = "verify" /\ last'.who = t)
               => /\ UNCHANGED <<authenticated, registered, session, pending>>
                  /\ last'.code # 200
                  /\ vreq'[t] = VIdle]_vars

\* The oracle has just refused a handshake while a user is logged in with a
\* live session.
C27_Witness ==
    /\ last.op = "verify" /\ last.code \in {400, 500}
    /\ last.body \in {"failed to verify", "internal verify error"}
    /\ \E u \in DOMAIN registered :
          /\ registered[u].token # last.who
          /\ u \in DOMAIN session

\* ======================================================================
\* Frames that do not decode (SpecAuth)
\* ======================================================================

\* The frame is empty or C2SMessage::try_from refuses it.
Undecodable(buf) ==
    \/ buf = <<>>
    \/ buf # <<>> /\ C2SDecode(buf).op \in {"BadLength", "BadEnum"}

\* C28: a frame that is empty or does not decode is dropped: the session is
\* as before (open, same owner, same subscriptions), the SessionMap, the
\* topics, the relays and the registry are unchanged and nothing is sent,
\* whether the session is authenticated or not.
C28_UndecodableDiscarded ==
    [][\A c \in Conns, buf \in Frames :
         (Takes(c, buf) /\ ~OwnerBanned(c) /\ Undecodable(buf))
            => /\ conn'[c] = conn[c]
               /\ last' = ObsNone
               /\ UNCHANGED <<session, broadcasts, nextChan, relay, nextRelay,
                              authenticated, registered, pending, banned>>]_vars

\* An authenticated session has just taken a frame with an unknown opcode
\* and is still open with its owner.
C28_Witness ==
    \E c \in Conns :
        /\ conn[c].st = "open" /\ conn[c].owner # None /\ ~OwnerBanned(c)
        /\ input = Input(c, <<9>>)
        /\ last = ObsNone

\* ======================================================================
\* Stored avatars (SpecAvatar)
\* ======================================================================

\* The step is an upload by the caller of token t that wrote the caller's file.
Uploads(t) ==
    /\ get(t) # NoInfo
    /\ last'.op = "upload_avatar" /\ last'.who = t /\ last'.code = 200

\* The step removed the avatar file of user u.
Deletes(u) == files[u].avatar /\ ~files'[u].avatar

\* C29: a step of the public API that writes or removes a user's avatar file
\* for an authenticated caller starts send_event for that caller's id.
C29_MutationSendsEvent ==
    [][/\ \A t \in Tokens : Uploads(t) => (evt = None /\ evt' = get(t).uuid)
       /\ \A u \in Users : Deletes(u) => (evt = None /\ evt' = u)]_vars

\* ======================================================================
\* The SessionMap after termination (SpecAuth)
\* ======================================================================

\* C30: no SessionMap entry holds the outbound queue of a connection whose
\* session task has returned, whatever frames the connection had sent.
C30_NoEntryOfTerminated ==
    \A u \in DOMAIN session : conn[session[u]].st # "done"

\* ======================================================================
\* Who publishes where (SpecPublish)
\* ======================================================================

\* C31: a Ping frame of an authenticated session is published on the topic
\* registered for the session's owner and nowhere else, and the published
\* frame carries the owner's id in its bytes 1..17 (counted from 0): only a
\* session authenticated as V puts a ping attributed to V before a subscriber.
C31_PublishesOnOwnTopic ==
    [][\A p \in Conns, buf \in PingFrames :
         (Takes(p, buf) /\ conn[p].owner # None /\ ~OwnerBanned(p))
            => LET V == conn[p].owner
                   d == into_s2c_ping(buf, V)
               IN /\ V \in DOMAIN broadcasts /\ conn[p].bctx = broadcasts[V]
                  /\ SubSeq(d, 2, 17) = UuidBytes(V)
                  /\ \A r \in Relays :
                        relay'[r] # relay[r]
                           => /\ relay[r].chan = conn[p].bctx
                              /\ \/ Gains(r, d)
                                 \/ relay'[r].lagged /\ relay'[r].inbox = <<>>]_vars

(***************************************************************************)
(* The takeover's retry (SpecLogin)                                        *)
(***************************************************************************)
\* C32: the fatal branch of Stage 2 is unreachable: the retry of insert after
\* remove(id) always succeeds, so no /verify call is ever answered
\* 400 "second session detected".
C32_NoSecondSessionDetected ==
    ~(last.op = "verify" /\ last.code = 400 /\ last.body = "second session detected")

(***************************************************************************)
(* A pending handshake is used once (SpecLogin)                            *)
(***************************************************************************)
\* /verify?id=t goes on to the oracle in this step.
ReachesOracle(t) == vreq[t].pc = "idle" /\ vreq'[t].pc # "idle"
\* A /verify?id=t call that is not the one in flight ends in this step.
OtherCallEnds(t) == last'.op = "verify" /\ last'.who = t /\ vreq'[t] = vreq[t]
Minted(t) == t < nextToken

\* C33: a pending handshake is single-use.  A Stage-2 call reaches the oracle
\* only by taking its id out of pending, and a minted id that has left pending
\* never returns to it, so at most one call per id reaches the oracle; only
\* that call can answer 200, and it answers once; every other call with the
\* id, while the first is in flight or after it, finds the entry absent, is
\* not answered 200, does not reach the oracle and leaves the authenticated
\* tables and the pending table as they are.
C33_PendingIsSingleUse ==
    [][\A t \in Logins :
         /\ ReachesOracle(t)
               => /\ t \in DOMAIN pending /\ t \notin DOMAIN pending'
                  /\ vreq'[t].pc = "has_joined"
         /\ (Minted(t) /\ t \notin DOMAIN pending)
               => /\ t \notin DOMAIN pending'
                  /\ ~ReachesOracle(t)
         /\ (last'.op = "verify" /\ last'.who = t /\ last'.code = 200)
               => /\ vreq[t].pc \in {"has_joined", "retry"}
                  /\ vreq'[t] = VIdle
                  /\ t \notin DOMAIN authenticated
         /\ OtherCallEnds(t)
               => /\ t \notin DOMAIN pending
                  /\ last'.code # 200
                  /\ UNCHANGED <<authenticated, registered, pending>>]_vars

\* A second /verify call with an id has just been turned away while the first
\* call with that id is still waiting for the oracle, and another handshake
\* of the same account has already logged in.
C33_Witness ==
    \E t \in Logins :
        /\ last = Panic("verify", t)
        /\ vreq[t].pc = "has_joined"
        /\ \E t2 \in DOMAIN authenticated :
              authenticated[t2].nickname = vreq[t].nickname
====
